---- MODULE Spec2Model ----
(***************************************************************************)
(* Symphonia music player (src/unnamed/part_000, with the earlier revision *)
(* src/app.js): the playback queue, the catalog load, the media element    *)
(* and the playlist store with its localStorage entry, as a state machine. *)
(* One action per event handler; a handler is an operator on a "world"     *)
(* record [state, audio, hung, storage, viz] so that the calls a handler   *)
(* makes (buildInitialShuffleOrder, loadTrackByIndex, renderUpNext,        *)
(* audio.play, startVisualizerLoop, savePlaylistsToStorage) are composed   *)
(* exactly as in the code.                                                 *)
(*                                                                         *)
(* JS arrays are 0-based: At(a, i) is a[i]; a TLA+ sequence holds them.    *)
(***************************************************************************)
EXTENDS Integers, Sequences, FiniteSets, TLC

VARIABLES
  state,         \* the global `state` object: queue and playlists
  audio,         \* the <audio> element: its source, paused and ended
  fetchPending,  \* fetchTracks() is still awaiting the catalog
  hung,          \* a handler is stuck in a loop that never ends: the page's
                 \* single thread runs nothing else from then on
  storage,       \* localStorage's entry under PLAYLIST_STORAGE_KEY
  response,      \* the document MUSIC_DB_URL answers with
  viz            \* visualizerState, and the frame callbacks the browser holds

vars == <<state, audio, fetchPending, hung, storage, response, viz>>

(* ---------------- bounds and program constants ---------------- *)

\* Most frame callbacks the browser is taken to hold at once.
MaxRaf == 2

\* Largest catalog the catalog source delivers.
MaxTracks == 6

\* Largest feed in which a record's link may be the text "undefined".
MaxBadFeed == 3

\* Largest document of loosely-typed records the normalizer is given.
MaxRaw == 2

\* Largest track index the "+ Playlist" buttons are pressed for.
MaxAddIndex == 0

\* const MAX_NEXT = 6 in renderUpNext.
MAX_NEXT == 6

\* state.currentTrackIndex: null  (no track chosen yet).
null == -1

(* ---------------- JS helpers ---------------- *)

At(a, i) == a[i + 1]

Includes(a, v) == \E k \in 1..Len(a) : a[k] = v

\* Array.prototype.indexOf: first position of v, -1 when absent.
IndexOf(a, v) ==
  IF Includes(a, v)
    THEN (CHOOSE k \in 1..Len(a) : a[k] = v /\ \A m \in 1..(k - 1) : a[m] # v) - 1
    ELSE -1

\* String.prototype.trim on the strings the catalog source and the name
\* prompt use.
Trim(s) ==
  CASE s = " " -> ""
    [] s = " a1.mp3 " -> "a1.mp3"
    [] s = " Favorites " -> "Favorites"
    [] OTHER -> s

\* The JSON number 0 in a field, as a token no text of the feed equals.
NumberZero == "#0"

\* a || b: the empty (or missing) string and the number 0 are falsy.
OrElse(a, b) == IF a \notin {"", NumberZero} THEN a ELSE b

(* ---------------- catalog source ---------------- *)

\* The audio URL of the k-th record of the feed.
Urls == <<"a1.mp3", "a2.mp3", "a3.mp3", "a4.mp3", "a5.mp3", "a6.mp3", "a7.mp3", "a8.mp3">>

\* `t${idx + 1}` for a 0-based idx.
FallbackIds == <<"t1", "t2", "t3", "t4", "t5", "t6", "t7", "t8">>

\* A raw record; "" stands for a field that is missing.
RawRecord(id, url, link) == [id |-> id, url |-> url, link |-> link]

\* The feeds of n records: every record carries a link; in a feed of at most
\* MaxBadFeed records one of them may carry the literal text "undefined" as
\* its link.
FeedsOfSize(n) ==
  { [k \in 1..n |-> RawRecord("", "", IF k = bad THEN "undefined" ELSE Urls[k])] :
      bad \in 0..(IF n <= MaxBadFeed THEN n ELSE 0) }

RawFeeds == UNION { FeedsOfSize(n) : n \in 0..MaxTracks }

\* Loosely-typed records: id, url and link each missing or present, the
\* text of url and link blank or padded at times, the id at times one that
\* the positional fallback also produces, at times the number 0.
LooseRecords ==
  { RawRecord(id, url, link) :
      id \in {"", "t2", NumberZero}, url \in {"", " ", "a1.mp3"}, link \in {"", " a1.mp3 ", "a2.mp3"} }

LooseFeeds == UNION { [1..n -> LooseRecords] : n \in 0..MaxRaw }

\* let skipped = 0 ... skipped++: the counter's value once raw[1..k] is done.
Skipped(raw, k) ==
  Cardinality({ j \in 1..k : Trim(OrElse(raw[j].url, OrElse(raw[j].link, ""))) = "" })

\* The forEach with the fallback id taken from the skip counter instead of
\* the record's index.
RECURSIVE NormalizeFromSkipCounter(_, _)
NormalizeFromSkipCounter(raw, k) ==
  IF k > Len(raw) THEN <<>>
  ELSE LET t == raw[k]
           url == Trim(OrElse(t.url, OrElse(t.link, "")))
       IN IF url = ""
            THEN NormalizeFromSkipCounter(raw, k + 1)
            ELSE <<[id |-> OrElse(t.id, FallbackIds[Skipped(raw, k) + 1]), src |-> url]>>
                   \o NormalizeFromSkipCounter(raw, k + 1)

\* fetchTracks, the forEach over raw: the records without a URL are skipped.
RECURSIVE NormalizeFrom(_, _)
NormalizeFrom(raw, k) ==
  IF k > Len(raw) THEN <<>>
  ELSE LET t == raw[k]
           url == Trim(OrElse(t.url, OrElse(t.link, "")))
       IN IF url = ""
            THEN NormalizeFrom(raw, k + 1)
            ELSE <<[id |-> OrElse(t.id, FallbackIds[k]), src |-> url]>>
                   \o NormalizeFrom(raw, k + 1)

\* The earlier revision's raw.map: every record becomes a track.
NormalizeNoSkip(raw) ==
  [k \in 1..Len(raw) |->
     [id |-> OrElse(raw[k].id, FallbackIds[k]),
      src |-> Trim(OrElse(raw[k].url, OrElse(raw[k].link, "")))]]

Normalize(raw) == NormalizeFrom(raw, 1)

(* ---------------- shuffle ---------------- *)

\* Math.floor(Math.random() * (i + 1)): a value of 0..i.  The draw is taken
\* from the two ends of that range.
RandomIndex(i) == {0, i}

\* [a[i], a[j]] = [a[j], a[i]] written as the single assignment a[i] = a[j].
SwapLossy(a, i, j) == [a EXCEPT ![i + 1] = a[j + 1]]

Swap(a, i, j) == [a EXCEPT ![i + 1] = a[j + 1], ![j + 1] = a[i + 1]]

\* shuffleArray's loop from index i down to 1: the set of its outcomes.
RECURSIVE FisherYates(_, _)
FisherYates(a, i) ==
  IF i <= 0 THEN {a}
  ELSE UNION { FisherYates(Swap(a, i, j), i - 1) : j \in RandomIndex(i) }

ShuffleArray(arr) == FisherYates(arr, Len(arr) - 1)

\* Array.from({length: n}, (_, i) => i)
Indices(n) == [k \in 1..n |-> k - 1]

\* The orders buildInitialShuffleOrder can produce for a catalog of n tracks.
ShuffledIndices == [n \in 0..MaxTracks |-> ShuffleArray(Indices(n))]

BuildInitialShuffleOrder(w, perm) ==
  [w EXCEPT !.state.shuffledOrder = perm, !.state.orderIndex = 0]

(* ---------------- Up Next queue ---------------- *)

\* renderUpNext, shuffle branch: while (list.length < MAX_NEXT &&
\* shuffledOrder.length > 0) { idx = order[start % length]; push idx when not
\* yet listed; start++ }.  idle counts the iterations since the last push: once
\* a whole round of the order has pushed nothing, every index is listed and the
\* loop never leaves (done = FALSE).
RECURSIVE UpNextShuffled(_, _, _, _)
UpNextShuffled(order, start, list, idle) ==
  IF ~(Len(list) < MAX_NEXT /\ Len(order) > 0) THEN [list |-> list, done |-> TRUE]
  ELSE IF idle >= Len(order) THEN [list |-> list, done |-> FALSE]
  ELSE LET idx == At(order, start % Len(order))
       IN IF ~Includes(list, idx)
            THEN UpNextShuffled(order, start + 1, Append(list, idx), 0)
            ELSE UpNextShuffled(order, start + 1, list, idle + 1)

Min(a, b) == IF a < b THEN a ELSE b

\* renderUpNext, the other branch: while (list.length < Math.min(MAX_NEXT,
\* tracks.length - 1)) { push idx when not yet listed; idx = (idx + 1) % n }.
RECURSIVE UpNextLinear(_, _, _, _)
UpNextLinear(n, idx, list, idle) ==
  IF ~(Len(list) < Min(MAX_NEXT, n - 1)) THEN [list |-> list, done |-> TRUE]
  ELSE IF idle >= n THEN [list |-> list, done |-> FALSE]
  ELSE IF ~Includes(list, idx)
         THEN UpNextLinear(n, (idx + 1) % n, Append(list, idx), 0)
         ELSE UpNextLinear(n, (idx + 1) % n, list, idle + 1)

\* The two loops tabulated once for the orders buildInitialShuffleOrder can
\* produce and for every start index: the same operators, evaluated ahead.
UpNextShuffledTable ==
  [n \in 1..MaxTracks |->
    [order \in ShuffledIndices[n] |->
      [oi \in 0..(n - 1) |-> UpNextShuffled(order, oi + 1, <<>>, 0)]]]

UpNextLinearTable ==
  [n \in 1..MaxTracks |-> [idx \in 0..(n - 1) |-> UpNextLinear(n, idx, <<>>, 0)]]

\* The list renderUpNext builds for the engine state s (s.tracks non-empty),
\* and whether its loop ends.
UpNext(s) ==
  IF s.shuffleEnabled /\ Len(s.shuffledOrder) > 0
    THEN IF /\ Len(s.shuffledOrder) \in 1..MaxTracks
            /\ s.shuffledOrder \in ShuffledIndices[Len(s.shuffledOrder)]
            /\ s.orderIndex \in 0..(Len(s.shuffledOrder) - 1)
           THEN UpNextShuffledTable[Len(s.shuffledOrder)][s.shuffledOrder][s.orderIndex]
           ELSE UpNextShuffled(s.shuffledOrder, s.orderIndex + 1, <<>>, 0)
    ELSE LET idx == IF s.currentTrackIndex = null THEN 0
                    ELSE (s.currentTrackIndex + 1) % Len(s.tracks)
         IN IF Len(s.tracks) \in 1..MaxTracks
              THEN UpNextLinearTable[Len(s.tracks)][idx]
              ELSE UpNextLinear(Len(s.tracks), idx, <<>>, 0)

\* renderUpNext(): returns at once on an empty catalog; a loop that never
\* ends leaves the handler that called it stuck (hung).
RenderUpNext(w) ==
  IF w.hung \/ Len(w.state.tracks) = 0 THEN w
  ELSE IF UpNext(w.state).done THEN w
  ELSE [w EXCEPT !.hung = TRUE]

(* ---------------- the visualizer ---------------- *)

\* The handle requestAnimationFrame returns: handles are opaque, so the
\* least one that is neither pending nor held in rafId stands for a new one.
NewHandle(v) ==
  CHOOSE id \in 1..(MaxRaf + 1) :
    /\ id \notin v.pending \cup {v.rafId}
    /\ \A other \in 1..(id - 1) : other \in v.pending \cup {v.rafId}

\* cancelAnimationFrame(id)
CancelAnimationFrame(v, id) == [v EXCEPT !.pending = @ \ {id}]

\* render(): draws the bars, then visualizerState.rafId =
\* requestAnimationFrame(render).
Render(v) ==
  LET id == NewHandle(v)
  IN [v EXCEPT !.rafId = id, !.pending = @ \cup {id}]

\* initVisualizer(): once, where the page has the element and the browser
\* an AudioContext.
InitVisualizer(w) ==
  IF w.hung \/ ~w.viz.supported \/ w.viz.ready THEN w
  ELSE [w EXCEPT !.viz.ready = TRUE]

\* startVisualizerLoop without the cancelAnimationFrame before render().
StartVisualizerLoopNoCancel(w) ==
  IF w.hung \/ ~w.viz.ready THEN w
  ELSE [w EXCEPT !.viz = Render(@)]

\* startVisualizerLoop()
StartVisualizerLoop(w) ==
  IF w.hung \/ ~w.viz.ready THEN w
  ELSE LET v == IF w.viz.rafId # 0 THEN CancelAnimationFrame(w.viz, w.viz.rafId)
                ELSE w.viz
       IN [w EXCEPT !.viz = Render(v)]

\* stopVisualizerLoop()
StopVisualizerLoop(w) ==
  IF w.hung \/ w.viz.rafId = 0 THEN w
  ELSE [w EXCEPT !.viz = [CancelAnimationFrame(@, @.rafId) EXCEPT !.rafId = 0]]

(* ---------------- playback ---------------- *)

\* els.audio.play(): the element starts playing (from the beginning when it
\* had ended) unless the platform refuses (ok = FALSE); the rejection is
\* caught and logged.
AudioPlay(w, ok) ==
  IF w.hung \/ ~ok THEN w
  ELSE [w EXCEPT !.audio.paused = FALSE, !.audio.ended = FALSE]

\* loadTrackByIndex(index, autoplay)
LoadTrackByIndex(w, index, autoplay, ok) ==
  IF w.hung THEN w
  ELSE IF index < 0 \/ index >= Len(w.state.tracks) THEN w
  ELSE LET track == At(w.state.tracks, index)
           src == Trim(track.src)
       IN IF src = "" \/ src = "undefined" THEN w
          ELSE LET w1 == [w EXCEPT !.state.currentTrackIndex = index,
                                   !.audio.src = src,
                                   !.audio.paused = TRUE,
                                   !.audio.ended = FALSE]
                   w2 == RenderUpNext(w1)
               IN IF autoplay
                    THEN StartVisualizerLoop(AudioPlay(InitVisualizer(w2), ok))
                    ELSE w2

\* playTrackFromIndex with the bound check index > length instead of >=.
PlayTrackFromIndexOffByOne(w, index, perm, ok) ==
  IF index < 0 \/ index > Len(w.state.tracks) THEN w
  ELSE LET w1 == IF ~Includes(w.state.shuffledOrder, index)
                   THEN BuildInitialShuffleOrder(w, perm) ELSE w
           idxInOrder == IndexOf(w1.state.shuffledOrder, index)
           w2 == [w1 EXCEPT !.state.currentTrackIndex = index,
                            !.state.orderIndex =
                               IF idxInOrder # -1 THEN idxInOrder ELSE @]
       IN LoadTrackByIndex(w2, index, TRUE, ok)

\* playTrackFromIndex that records the index before it looks the track up.
PlayTrackFromIndexLateCheck(w, index, perm, ok) ==
  LET w0 == [w EXCEPT !.state.currentTrackIndex = index]
  IN IF index < 0 \/ index >= Len(w.state.tracks) THEN w0
     ELSE LET w1 == IF ~Includes(w0.state.shuffledOrder, index)
                      THEN BuildInitialShuffleOrder(w0, perm) ELSE w0
              idxInOrder == IndexOf(w1.state.shuffledOrder, index)
              w2 == [w1 EXCEPT !.state.orderIndex =
                                  IF idxInOrder # -1 THEN idxInOrder ELSE @]
          IN LoadTrackByIndex(w2, index, TRUE, ok)

\* playTrackFromIndex without the orderIndex = indexOf(index) update.
PlayTrackFromIndexNoSync(w, index, perm, ok) ==
  IF index < 0 \/ index >= Len(w.state.tracks) THEN w
  ELSE LET w1 == IF ~Includes(w.state.shuffledOrder, index)
                   THEN BuildInitialShuffleOrder(w, perm) ELSE w
           w2 == [w1 EXCEPT !.state.currentTrackIndex = index]
       IN LoadTrackByIndex(w2, index, TRUE, ok)

\* playTrackFromIndex(index); index is an integer here, NaN is
\* PlayTrackFromNaN below.
PlayTrackFromIndex(w, index, perm, ok) ==
  IF index < 0 \/ index >= Len(w.state.tracks) THEN w
  ELSE LET w1 == IF ~Includes(w.state.shuffledOrder, index)
                   THEN BuildInitialShuffleOrder(w, perm) ELSE w
           idxInOrder == IndexOf(w1.state.shuffledOrder, index)
           w2 == [w1 EXCEPT !.state.currentTrackIndex = index,
                            !.state.orderIndex =
                               IF idxInOrder # -1 THEN idxInOrder ELSE @]
       IN LoadTrackByIndex(w2, index, TRUE, ok)

\* Whether skipTrack(direction) runs buildInitialShuffleOrder.
SkipReseeds(s, direction) ==
  /\ Len(s.tracks) > 0
  /\ s.shuffleEnabled /\ Len(s.shuffledOrder) > 0
  /\ (s.orderIndex + direction < 0 \/ s.orderIndex + direction >= Len(s.shuffledOrder))

\* skipTrack that wraps the cursor around the order it has instead of
\* building a new one.
SkipTrackWraps(w, direction, perm, ok) ==
  IF Len(w.state.tracks) = 0 THEN w
  ELSE IF w.state.shuffleEnabled /\ Len(w.state.shuffledOrder) > 0
    THEN LET n == Len(w.state.shuffledOrder)
             w1 == [w EXCEPT !.state.orderIndex = (@ + direction + n) % n]
         IN LoadTrackByIndex(w1, At(w1.state.shuffledOrder, w1.state.orderIndex), TRUE, ok)
    ELSE LET cur == IF w.state.currentTrackIndex = null THEN 0
                    ELSE w.state.currentTrackIndex
             n1 == cur + direction
             n2 == IF n1 < 0 THEN Len(w.state.tracks) - 1 ELSE n1
             newIndex == IF n2 >= Len(w.state.tracks) THEN 0 ELSE n2
         IN LoadTrackByIndex(w, newIndex, TRUE, ok)

\* skipTrack(direction)
SkipTrack(w, direction, perm, ok) ==
  IF Len(w.state.tracks) = 0 THEN w
  ELSE IF w.state.shuffleEnabled /\ Len(w.state.shuffledOrder) > 0
    THEN LET w1 == [w EXCEPT !.state.orderIndex = @ + direction]
             w2 == IF w1.state.orderIndex < 0
                      \/ w1.state.orderIndex >= Len(w1.state.shuffledOrder)
                     THEN BuildInitialShuffleOrder(w1, perm) ELSE w1
         IN LoadTrackByIndex(w2, At(w2.state.shuffledOrder, w2.state.orderIndex), TRUE, ok)
    ELSE LET cur == IF w.state.currentTrackIndex = null THEN 0
                    ELSE w.state.currentTrackIndex
             n1 == cur + direction
             n2 == IF n1 < 0 THEN Len(w.state.tracks) - 1 ELSE n1
             newIndex == IF n2 >= Len(w.state.tracks) THEN 0 ELSE n2
         IN LoadTrackByIndex(w, newIndex, TRUE, ok)

\* handleTrackEnded without the repeat-one branch.
HandleTrackEndedAlwaysSkips(w, perm, ok) == SkipTrack(w, 1, perm, ok)

\* handleTrackEnded()
HandleTrackEnded(w, perm, ok) ==
  IF w.state.repeatMode = "one"
    THEN AudioPlay([w EXCEPT !.audio.ended = FALSE], ok)
    ELSE SkipTrack(w, 1, perm, ok)

\* toggleShuffle that sets the flag instead of flipping it.
ToggleShuffleStuckOn(w, perm) ==
  LET w1 == [w EXCEPT !.state.shuffleEnabled = TRUE]
  IN RenderUpNext(BuildInitialShuffleOrder(w1, perm))

\* toggleShuffle()
ToggleShuffle(w, perm) ==
  LET w1 == [w EXCEPT !.state.shuffleEnabled = ~@]
      w2 == IF w1.state.shuffleEnabled THEN BuildInitialShuffleOrder(w1, perm) ELSE w1
  IN RenderUpNext(w2)

\* toggleRepeat()
ToggleRepeat(w) ==
  [w EXCEPT !.state.repeatMode = IF @ = "off" THEN "one" ELSE "off"]

\* togglePlayPause()
TogglePlayPause(w, ok) ==
  IF Len(w.state.tracks) = 0 THEN w
  ELSE IF w.state.isPlaying
    THEN StopVisualizerLoop([w EXCEPT !.audio.paused = TRUE])
  ELSE StartVisualizerLoop(AudioPlay(InitVisualizer(w), ok))

\* updateProgress that raises the flag while playing and never lowers it.
UpdateProgressNeverClears(w) ==
  IF w.audio.paused THEN w ELSE [w EXCEPT !.state.isPlaying = TRUE]

\* updateProgress(), the timeupdate handler: the flag follows the element.
UpdateProgress(w) ==
  IF w.audio.paused THEN StopVisualizerLoop([w EXCEPT !.state.isPlaying = FALSE])
  ELSE [w EXCEPT !.state.isPlaying = TRUE]

\* The media session's "play" action handler.
MediaSessionPlay(w, ok) == StartVisualizerLoop(AudioPlay(InitVisualizer(w), ok))

\* The media session's "pause" action handler.
MediaSessionPause(w) == StopVisualizerLoop([w EXCEPT !.audio.paused = TRUE])

\* fetchTracks() once the response arrived and parsed as raw.
FetchTracks(w, raw, perm) ==
  LET w1 == [w EXCEPT !.state.tracks = Normalize(raw)]
  IN IF Len(w1.state.tracks) = 0 THEN w1
     ELSE LET w2 == RenderUpNext(BuildInitialShuffleOrder(w1, perm))
          IN LoadTrackByIndex(w2, At(w2.state.shuffledOrder, 0), FALSE, FALSE)

(* ---------------- playlist store ---------------- *)

\* generateId(): Math.random().toString(36).slice(2, 9).  The draw is taken
\* from two tokens, so that two calls can return the same one.
Ids == {"k1", "k2"}

\* activePlaylistId: null, or undefined after a load that found no key.
NoId == ""

\* state.playlists is an object: a sequence of its properties in key order,
\* each the key and the playlist object stored under it.
Keys(pls) == [k \in 1..Len(pls) |-> pls[k].key]

HasKey(pls, key) == \E k \in 1..Len(pls) : pls[k].key = key

\* state.playlists[key]
Get(pls, key) == pls[CHOOSE k \in 1..Len(pls) : pls[k].key = key]

\* state.playlists[key] = pl: an existing key keeps its place.
Put(pls, key, pl) ==
  IF HasKey(pls, key)
    THEN [k \in 1..Len(pls) |-> IF pls[k].key = key THEN [pl EXCEPT !.key = key]
                                                   ELSE pls[k]]
    ELSE Append(pls, [pl EXCEPT !.key = key])

\* What a call of generateId() is taken to return while state.playlists is
\* pls: any key in use (a collision), or one token not in use (the tokens
\* are opaque, so one unused token stands for all of them).
GeneratedIds(pls) ==
  { id \in Ids : HasKey(pls, id) }
    \cup (IF \E id \in Ids : ~HasKey(pls, id)
            THEN {CHOOSE id \in Ids : ~HasKey(pls, id)}
            ELSE {})

\* { id, name, trackIds: [] }
NewPlaylist(id, name) == [key |-> id, id |-> id, name |-> name, trackIds |-> <<>>]

\* JSON text, as the tree of its tokens.
JNull == [t |-> "null", v |-> ""]

JString(s) == [t |-> "string", v |-> s]

JNumber(n) == [t |-> "number", v |-> n]

\* JSON.stringify({ playlists, activePlaylistId })
JsonStringify(pls, active) ==
  [playlists |->
     [k \in 1..Len(pls) |->
        [key |-> pls[k].key,
         value |-> [id |-> JString(pls[k].id),
                    name |-> JString(pls[k].name),
                    trackIds |-> [m \in 1..Len(pls[k].trackIds) |->
                                    JNumber(pls[k].trackIds[m])]]]],
   activePlaylistId |-> IF active = NoId THEN JNull ELSE JString(active)]

\* JSON.parse(raw).playlists
ParsedPlaylists(doc) ==
  [k \in 1..Len(doc.playlists) |->
     LET e == doc.playlists[k]
     IN [key |-> e.key, id |-> e.value.id.v, name |-> e.value.name.v,
         trackIds |-> [m \in 1..Len(e.value.trackIds) |-> e.value.trackIds[m].v]]]

\* JSON.parse(raw).activePlaylistId
ParsedActive(doc) ==
  IF doc.activePlaylistId.t = "string" THEN doc.activePlaylistId.v ELSE NoId

\* The localStorage entry: absent, a text JSON.parse throws on, or a document.
NoDoc == JsonStringify(<<>>, NoId)

Absent == [kind |-> "absent", doc |-> NoDoc]

Corrupt == [kind |-> "corrupt", doc |-> NoDoc]

Stored(doc) == [kind |-> "json", doc |-> doc]

\* savePlaylistsToStorage that removes the entry when setItem throws.
SavePlaylistsToStorageDropsOnFail(w, writeOk) ==
  IF writeOk
    THEN [w EXCEPT !.storage =
            Stored(JsonStringify(w.state.playlists, w.state.activePlaylistId))]
    ELSE [w EXCEPT !.storage = Absent]

\* savePlaylistsToStorage(); setItem throws when writeOk is FALSE.
SavePlaylistsToStorage(w, writeOk) ==
  IF writeOk
    THEN [w EXCEPT !.storage =
            Stored(JsonStringify(w.state.playlists, w.state.activePlaylistId))]
    ELSE w

\* loadPlaylistsFromStorage that always activates the first stored playlist.
LoadPlaylistsFromStorageFirstKey(w, favId) ==
  CASE w.storage.kind = "absent" ->
         [w EXCEPT !.state.playlists = Put(@, favId, NewPlaylist(favId, "Favorites")),
                   !.state.activePlaylistId = favId]
    [] w.storage.kind = "corrupt" -> w
    [] OTHER ->
         LET playlists == ParsedPlaylists(w.storage.doc)
         IN [w EXCEPT !.state.playlists = playlists,
                      !.state.activePlaylistId =
                        IF Len(playlists) > 0 THEN Keys(playlists)[1] ELSE NoId]

\* loadPlaylistsFromStorage()
LoadPlaylistsFromStorage(w, favId) ==
  CASE w.storage.kind = "absent" ->
         [w EXCEPT !.state.playlists = Put(@, favId, NewPlaylist(favId, "Favorites")),
                   !.state.activePlaylistId = favId]
    [] w.storage.kind = "corrupt" -> w
    [] OTHER ->
         LET playlists == ParsedPlaylists(w.storage.doc)
         IN [w EXCEPT !.state.playlists = playlists,
                      !.state.activePlaylistId =
                        OrElse(ParsedActive(w.storage.doc),
                               IF Len(playlists) > 0 THEN Keys(playlists)[1] ELSE NoId)]

\* The click listener without its savePlaylistsToStorage() call.
SelectPlaylistNoSave(w, pl, writeOk) ==
  [w EXCEPT !.state.activePlaylistId = pl.id]

\* The click listener renderPlaylistSidebar puts on the item of playlist pl.
SelectPlaylist(w, pl, writeOk) ==
  SavePlaylistsToStorage([w EXCEPT !.state.activePlaylistId = pl.id], writeOk)

\* createNewPlaylist that leaves activePlaylistId as it was.
CreateNewPlaylistKeepsActive(w, name, id, writeOk) ==
  IF name = "" THEN w
  ELSE SavePlaylistsToStorage(
         [w EXCEPT !.state.playlists = Put(@, id, NewPlaylist(id, Trim(name)))],
         writeOk)

\* createNewPlaylist() once prompt() returned the text name.
CreateNewPlaylist(w, name, id, writeOk) ==
  IF name = "" THEN w
  ELSE SavePlaylistsToStorage(
         [w EXCEPT !.state.playlists = Put(@, id, NewPlaylist(id, Trim(name))),
                   !.state.activePlaylistId = id],
         writeOk)

\* handleAddTrackToPlaylist without the includes() test before the push.
HandleAddTrackToPlaylistAlwaysPushes(w, trackIndex, favId, writeOk) ==
  LET w1 == IF w.state.activePlaylistId # NoId THEN w
            ELSE IF Len(w.state.playlists) = 0
              THEN [w EXCEPT !.state.playlists =
                               Put(@, favId, NewPlaylist(favId, "Favorites")),
                             !.state.activePlaylistId = favId]
              ELSE [w EXCEPT !.state.activePlaylistId = Keys(w.state.playlists)[1]]
      targetId == w1.state.activePlaylistId
  IN IF ~HasKey(w1.state.playlists, targetId) THEN w1
     ELSE LET pl == Get(w1.state.playlists, targetId)
              pl1 == [pl EXCEPT !.trackIds = Append(@, trackIndex)]
          IN SavePlaylistsToStorage(
               [w1 EXCEPT !.state.playlists = Put(@, targetId, pl1)], writeOk)

\* handleAddTrackToPlaylist falling back to the last key of state.playlists
\* instead of the first.
HandleAddTrackToPlaylistLastKey(w, trackIndex, favId, writeOk) ==
  LET w1 == IF w.state.activePlaylistId # NoId THEN w
            ELSE IF Len(w.state.playlists) = 0
              THEN [w EXCEPT !.state.playlists =
                               Put(@, favId, NewPlaylist(favId, "Favorites")),
                             !.state.activePlaylistId = favId]
              ELSE [w EXCEPT !.state.activePlaylistId =
                               Keys(w.state.playlists)[Len(w.state.playlists)]]
      targetId == w1.state.activePlaylistId
  IN IF ~HasKey(w1.state.playlists, targetId) THEN w1
     ELSE LET pl == Get(w1.state.playlists, targetId)
              pl1 == IF Includes(pl.trackIds, trackIndex) THEN pl
                     ELSE [pl EXCEPT !.trackIds = Append(@, trackIndex)]
          IN SavePlaylistsToStorage(
               [w1 EXCEPT !.state.playlists = Put(@, targetId, pl1)], writeOk)

\* handleAddTrackToPlaylist(trackIndex); the handler throws on a target that
\* is no key of state.playlists.
HandleAddTrackToPlaylist(w, trackIndex, favId, writeOk) ==
  LET w1 == IF w.state.activePlaylistId # NoId THEN w
            ELSE IF Len(w.state.playlists) = 0
              THEN [w EXCEPT !.state.playlists =
                               Put(@, favId, NewPlaylist(favId, "Favorites")),
                             !.state.activePlaylistId = favId]
              ELSE [w EXCEPT !.state.activePlaylistId = Keys(w.state.playlists)[1]]
      targetId == w1.state.activePlaylistId
  IN IF ~HasKey(w1.state.playlists, targetId) THEN w1
     ELSE LET pl == Get(w1.state.playlists, targetId)
              pl1 == IF Includes(pl.trackIds, trackIndex) THEN pl
                     ELSE [pl EXCEPT !.trackIds = Append(@, trackIndex)]
          IN SavePlaylistsToStorage(
               [w1 EXCEPT !.state.playlists = Put(@, targetId, pl1)], writeOk)

(* ---------------- the state machine ---------------- *)

\* const state = {...}
InitialState ==
  [tracks |-> <<>>, shuffledOrder |-> <<>>, orderIndex |-> 0,
   currentTrackIndex |-> null, isPlaying |-> FALSE,
   repeatMode |-> "off", shuffleEnabled |-> TRUE,
   playlists |-> <<>>, activePlaylistId |-> NoId]

\* const visualizerState = {...}: ready stands for ctx, analyser, dataArray
\* and bars being set, rafId 0 for null; pending are the handles of the
\* frame callbacks requested and neither run nor cancelled. supported: the
\* page has the #visualizer element and the browser an AudioContext.
InitialVisualizer ==
  [supported |-> FALSE, ready |-> FALSE, rafId |-> 0, pending |-> {}]

\* The <audio> element before any source is set.
InitialAudio == [src |-> "", paused |-> TRUE, ended |-> FALSE]

\* The DOMContentLoaded handler on a fresh page that finds the entry stored
\* in localStorage: loadPlaylistsFromStorage(), then fetchTracks() up to its
\* await.
DOMContentLoaded(stored, favId) ==
  LoadPlaylistsFromStorage(
    [state |-> InitialState, audio |-> InitialAudio, hung |-> FALSE,
     storage |-> stored, viz |-> InitialVisualizer], favId)

\* The page is up in world w and its fetch is under way.
Loaded(w) ==
  /\ state = w.state
  /\ audio = w.audio
  /\ hung = w.hung
  /\ storage = w.storage
  /\ viz = w.viz
  /\ fetchPending = TRUE

\* A first visit: nothing is stored yet.
Init ==
  /\ response \in RawFeeds
  /\ \E favId \in GeneratedIds(<<>>) : Loaded(DOMContentLoaded(Absent, favId))

World ==
  [state |-> state, audio |-> audio, hung |-> hung, storage |-> storage,
   viz |-> viz]

\* A handler ran on the page's single thread and left the world w.
Becomes(w) ==
  /\ ~hung
  /\ state' = w.state
  /\ audio' = w.audio
  /\ hung' = w.hung
  /\ storage' = w.storage
  /\ viz' = w.viz
  /\ w.viz.pending \subseteq 1..MaxRaf
  /\ UNCHANGED response

\* The outcomes of shuffleArray a handler can see: those of the catalog's
\* index list when the handler shuffles at all.
Perms(n, shuffles) == IF shuffles THEN ShuffledIndices[n] ELSE {<<>>}

\* The index a click on a track card or an Up Next item can carry.
ClickIndices == -1..MaxTracks

\* fetch(MUSIC_DB_URL) failed, or answered with something that is no JSON.
FetchFailedAct ==
  /\ fetchPending
  /\ fetchPending' = FALSE
  /\ Becomes(World)

FetchTracksAct ==
  /\ fetchPending
  /\ fetchPending' = FALSE
  /\ \E perm \in ShuffledIndices[Len(Normalize(response))] :
       Becomes(FetchTracks(World, response, perm))

PlayTrackFromIndexAct ==
  /\ UNCHANGED fetchPending
  /\ \E index \in ClickIndices, ok \in BOOLEAN :
       \E perm \in Perms(Len(state.tracks),
                         index >= 0 /\ index < Len(state.tracks)
                           /\ ~Includes(state.shuffledOrder, index)) :
         Becomes(PlayTrackFromIndex(World, index, perm, ok))

\* parseInt(dataset.index) gave NaN: state.tracks[NaN] is undefined.
PlayTrackFromNaNAct ==
  /\ UNCHANGED fetchPending
  /\ Becomes(World)

SkipTrackAct ==
  /\ UNCHANGED fetchPending
  /\ \E direction \in {1, -1}, ok \in BOOLEAN :
       \E perm \in Perms(Len(state.tracks), SkipReseeds(state, direction)) :
         Becomes(SkipTrack(World, direction, perm, ok))

\* The track played to its end: the element pauses itself, then fires ended.
HandleTrackEndedAct ==
  /\ UNCHANGED fetchPending
  /\ audio.src # "" /\ ~audio.paused
  /\ LET w == [World EXCEPT !.audio.paused = TRUE, !.audio.ended = TRUE]
     IN \E ok \in BOOLEAN :
          \E perm \in Perms(Len(state.tracks),
                            state.repeatMode # "one" /\ SkipReseeds(state, 1)) :
            Becomes(HandleTrackEnded(w, perm, ok))

ToggleShuffleAct ==
  /\ UNCHANGED fetchPending
  /\ \E perm \in Perms(Len(state.tracks), ~state.shuffleEnabled) :
       Becomes(ToggleShuffle(World, perm))

ToggleRepeatAct ==
  /\ UNCHANGED fetchPending
  /\ Becomes(ToggleRepeat(World))

TogglePlayPauseAct ==
  /\ UNCHANGED fetchPending
  /\ \E ok \in BOOLEAN : Becomes(TogglePlayPause(World, ok))

\* timeupdate, fired by the element while it holds a source.
UpdateProgressAct ==
  /\ UNCHANGED fetchPending
  /\ audio.src # ""
  /\ Becomes(UpdateProgress(World))

Next ==
  \/ FetchFailedAct
  \/ FetchTracksAct
  \/ PlayTrackFromIndexAct
  \/ PlayTrackFromNaNAct
  \/ SkipTrackAct
  \/ HandleTrackEndedAct
  \/ ToggleShuffleAct
  \/ ToggleRepeatAct
  \/ TogglePlayPauseAct
  \/ UpdateProgressAct

Spec == Init /\ [][Next]_vars

(* ---------------- the queue on a catalog with a dead link ---------------- *)

\* MAX_NEXT records, the second with the text "undefined" as its link: the
\* smallest catalog on which the shuffle branch of renderUpNext ends.
BadFeed ==
  [k \in 1..MAX_NEXT |-> RawRecord("", "", IF k = 2 THEN "undefined" ELSE Urls[k])]

InitBad ==
  /\ response = BadFeed
  /\ \E favId \in GeneratedIds(<<>>) : Loaded(DOMContentLoaded(Absent, favId))

SpecBad == InitBad /\ [][Next]_vars

(* ---------------- the playlist store's state machine ---------------- *)

\* The catalog of the playlist sessions: MAX_NEXT records, each with a link.
StoreFeed == [k \in 1..MAX_NEXT |-> RawRecord("", "", Urls[k])]

\* A page load that finds nothing stored, or an entry that cannot be read.
InitStore ==
  /\ response = StoreFeed
  /\ \E stored \in {Absent, Corrupt}, favId \in GeneratedIds(<<>>) :
       Loaded(DOMContentLoaded(stored, favId))

\* What the user can leave in the name prompt.
PromptTexts == {"", " ", " Favorites "}

\* The indices the "+ Playlist" buttons of the grid carry: one per rendered
\* track, up to MaxAddIndex.
AddIndices == 0..Min(MaxAddIndex, Len(state.tracks) - 1)

\* The catalog arrives; shuffleArray's draws leave the order as it was.
FetchTracksInOrderAct ==
  /\ fetchPending
  /\ fetchPending' = FALSE
  /\ Becomes(FetchTracks(World, response, Indices(Len(Normalize(response)))))

CreateNewPlaylistAct ==
  /\ UNCHANGED fetchPending
  /\ \E name \in PromptTexts, id \in GeneratedIds(state.playlists),
          writeOk \in BOOLEAN :
       Becomes(CreateNewPlaylist(World, name, id, writeOk))

\* prompt() was cancelled: name is null.
CreateCancelledAct ==
  /\ UNCHANGED fetchPending
  /\ Becomes(World)

HandleAddTrackToPlaylistAct ==
  /\ UNCHANGED fetchPending
  /\ \E trackIndex \in AddIndices, favId \in GeneratedIds(state.playlists),
          writeOk \in BOOLEAN :
       Becomes(HandleAddTrackToPlaylist(World, trackIndex, favId, writeOk))

SelectPlaylistAct ==
  /\ UNCHANGED fetchPending
  /\ \E k \in 1..Len(state.playlists), writeOk \in BOOLEAN :
       Becomes(SelectPlaylist(World, state.playlists[k], writeOk))

\* The page is loaded anew: memory starts over, localStorage stays.
ReloadAct ==
  /\ \E favId \in GeneratedIds(<<>>) :
       LET w == DOMContentLoaded(storage, favId)
       IN /\ state' = w.state
          /\ audio' = w.audio
          /\ hung' = w.hung
          /\ storage' = w.storage
          /\ viz' = [w.viz EXCEPT !.supported = viz.supported]
  /\ fetchPending' = TRUE
  /\ UNCHANGED response

NextStore ==
  \/ FetchTracksInOrderAct
  \/ CreateNewPlaylistAct
  \/ CreateCancelledAct
  \/ HandleAddTrackToPlaylistAct
  \/ SelectPlaylistAct
  \/ ReloadAct

SpecStore == InitStore /\ [][NextStore]_vars

(* ---------------- properties ---------------- *)

N == Len(state.tracks)

IsPermutation(order, n) ==
  /\ Len(order) = n
  /\ \A v \in 0..(n - 1) : Cardinality({k \in 1..Len(order) : order[k] = v}) = 1

NoDuplicates(list) ==
  \A a, b \in 1..Len(list) : a # b => list[a] # list[b]

\* Every track of the catalog passes loadTrackByIndex's source check.
AllLoadable == \A k \in 1..N : Trim(state.tracks[k].src) \notin {"", "undefined"}

\* A value for a handler's perm argument in the states where the handler
\* cannot reach shuffleArray.
NoShuffle == state.shuffledOrder

\* C1: once the catalog is non-empty, shuffledOrder is a permutation of
\* 0..n-1 (length n, no repeats) and orderIndex lies in [0, length); so is
\* every order buildInitialShuffleOrder can produce.
C1_OrderIsPermutation ==
  N > 0 =>
    /\ IsPermutation(state.shuffledOrder, N)
    /\ state.orderIndex \in 0..(Len(state.shuffledOrder) - 1)
    /\ \A perm \in ShuffledIndices[N] : IsPermutation(perm, N)

\* A shuffled order of a MAX_NEXT-track catalog whose cursor was advanced to
\* the last slot.
C1_Witness ==
  /\ ~hung /\ N = MAX_NEXT /\ state.shuffleEnabled
  /\ state.shuffledOrder # Indices(N)
  /\ state.orderIndex = N - 1
  /\ state.currentTrackIndex = At(state.shuffledOrder, N - 1)

\* C2: currentTrackIndex is null or the index of a track of the catalog.
C2_CurrentIndexLive ==
  \/ state.currentTrackIndex = null
  \/ /\ state.currentTrackIndex \in 0..(N - 1)
     /\ state.currentTrackIndex + 1 \in DOMAIN state.tracks

\* The last track of a catalog is current and loaded in the element.
C2_Witness ==
  /\ N >= 2 /\ state.currentTrackIndex = N - 1
  /\ audio.src = At(state.tracks, N - 1).src

\* C3: with shuffle off, skipTrack(d) makes (currentTrackIndex + d) mod n
\* the current track, wrapping at both ends.
C3_ModuloWalk ==
  (~hung /\ ~state.shuffleEnabled /\ N >= 1 /\ state.currentTrackIndex # null) =>
    \A d \in {1, -1}, ok \in BOOLEAN :
      SkipTrack(World, d, NoShuffle, ok).state.currentTrackIndex
        = (state.currentTrackIndex + d) % N

\* C4: skipTrack(1) then skipTrack(-1) gives back the current track unless
\* the forward step re-seeded the order (stated for the catalogs whose
\* tracks all load).
C4_ForwardBackInverse ==
  (~hung /\ N >= 1 /\ AllLoadable /\ state.currentTrackIndex # null
     /\ ~SkipReseeds(state, 1)) =>
    \A ok1, ok2 \in BOOLEAN :
      LET w1 == SkipTrack(World, 1, NoShuffle, ok1)
          w2 == SkipTrack(w1, -1, NoShuffle, ok2)
      IN w2.state.currentTrackIndex = state.currentTrackIndex

\* The world handleTrackEnded() sees: the element paused itself at the end.
EndedWorld == [World EXCEPT !.audio.paused = TRUE, !.audio.ended = TRUE]

\* C5: handleTrackEnded() under repeatMode "one" leaves currentTrackIndex,
\* shuffledOrder and orderIndex (the whole engine state) and the loaded
\* source as they are, rewinds the element and, unless the platform refuses
\* play(), has it playing again.
C5_RepeatOneKeepsTrack ==
  (~hung /\ state.repeatMode = "one") =>
    \A ok \in BOOLEAN :
      LET r == HandleTrackEnded(EndedWorld, NoShuffle, ok)
      IN /\ r.state = state
         /\ r.audio.src = audio.src
         /\ ~r.audio.ended
         /\ ok => ~r.audio.paused
         /\ ~r.hung

\* A track is playing under repeat-one and its end restarts it.
C5_Witness ==
  /\ ~hung /\ state.repeatMode = "one" /\ N >= 2
  /\ audio.src # "" /\ ~audio.paused
  /\ state.currentTrackIndex # null
  /\ ~HandleTrackEnded(EndedWorld, NoShuffle, TRUE).audio.paused
  /\ SkipTrack(EndedWorld, 1, NoShuffle, TRUE).state.currentTrackIndex
       # state.currentTrackIndex

\* C6: the list renderUpNext builds never starts with the current track and
\* never holds an index twice (stated for the catalogs whose tracks all load).
C6_UpNextSkipsCurrent ==
  (~hung /\ N >= 1 /\ AllLoadable /\ UpNext(state).done) =>
    LET list == UpNext(state).list
    IN /\ (Len(list) > 0 /\ state.currentTrackIndex # null)
            => list[1] # state.currentTrackIndex
       /\ NoDuplicates(list)

\* C7: renderUpNext's loop ends, with at most MAX_NEXT entries, for every
\* catalog of n >= 1 tracks.
C7_UpNextTerminates ==
  N >= 1 => /\ UpNext(state).done
            /\ Len(UpNext(state).list) <= MAX_NEXT

C9_InvalidIndexRejected ==
  ~hung =>
    \A index \in ClickIndices \ (0..(N - 1)) : \A ok \in BOOLEAN :
      PlayTrackFromIndex(World, index, NoShuffle, ok) = World

\* A track is playing and the flag says so; index n is then played.
C9_Witness ==
  /\ ~hung /\ N = 2 /\ state.currentTrackIndex = 1
  /\ ~audio.paused /\ state.isPlaying
  /\ PlayTrackFromIndex(World, N, NoShuffle, TRUE) = World

\* C10: playTrackFromIndex(i) for 0 <= i < n makes i current and moves the
\* cursor to i's slot; an order that held i is kept, and shuffleEnabled and
\* repeatMode are kept.
C10_PlayIndexSelects ==
  ~hung =>
    \A index \in 0..(N - 1) : \A ok \in BOOLEAN :
      LET r == PlayTrackFromIndex(World, index, NoShuffle, ok)
      IN /\ r.state.currentTrackIndex = index
         /\ At(r.state.shuffledOrder, r.state.orderIndex) = index
         /\ Includes(state.shuffledOrder, index)
              => r.state.shuffledOrder = state.shuffledOrder
         /\ r.state.shuffleEnabled = state.shuffleEnabled
         /\ r.state.repeatMode = state.repeatMode

\* With shuffle off on a 3-track catalog only playTrackFromIndex moves the
\* cursor: it stands on the current track's slot, past the first.
C10_Witness ==
  /\ ~hung /\ N = 3 /\ ~state.shuffleEnabled
  /\ state.orderIndex = 2
  /\ At(state.shuffledOrder, 2) = state.currentTrackIndex
  /\ state.shuffledOrder # Indices(3)

(* ---------------- the normalizer's state machine ---------------- *)

\* A first visit to a page whose catalog document is any of the loose feeds.
InitNorm ==
  /\ response \in LooseFeeds
  /\ \E favId \in GeneratedIds(<<>>) : Loaded(DOMContentLoaded(Absent, favId))

NextNorm == FetchTracksAct

SpecNorm == InitNorm /\ [][NextNorm]_vars

(* ---------------- the visualizer's state machine ---------------- *)

\* A first visit with a visualizer: the page has the element, the browser
\* an AudioContext; the catalog is StoreFeed.
InitViz ==
  /\ response = StoreFeed
  /\ \E favId \in GeneratedIds(<<>>) :
       Loaded([DOMContentLoaded(Absent, favId) EXCEPT !.viz.supported = TRUE])

\* A click on a track card of the grid.
PlayTrackFromCardAct ==
  /\ UNCHANGED fetchPending
  /\ \E index \in 0..(Len(state.tracks) - 1), ok \in BOOLEAN :
       /\ Includes(state.shuffledOrder, index)
       /\ Becomes(PlayTrackFromIndex(World, index, NoShuffle, ok))

\* The track played to its end, the queue not at its last slot.
HandleTrackEndedInOrderAct ==
  /\ UNCHANGED fetchPending
  /\ audio.src # "" /\ ~audio.paused
  /\ state.repeatMode = "one" \/ ~SkipReseeds(state, 1)
  /\ LET w == [World EXCEPT !.audio.paused = TRUE, !.audio.ended = TRUE]
     IN \E ok \in BOOLEAN : Becomes(HandleTrackEnded(w, NoShuffle, ok))

\* The platform's media controls: play.
MediaSessionPlayAct ==
  /\ UNCHANGED fetchPending
  /\ \E ok \in (IF audio.src = "" THEN {FALSE} ELSE BOOLEAN) :
       Becomes(MediaSessionPlay(World, ok))

\* The platform's media controls: pause.
MediaSessionPauseAct ==
  /\ UNCHANGED fetchPending
  /\ Becomes(MediaSessionPause(World))

\* The browser runs a pending frame callback: render().
FrameAct ==
  /\ UNCHANGED fetchPending
  /\ \E id \in viz.pending :
       Becomes([World EXCEPT !.viz = Render(CancelAnimationFrame(@, id))])

NextViz ==
  \/ FetchTracksInOrderAct
  \/ PlayTrackFromCardAct
  \/ HandleTrackEndedInOrderAct
  \/ ToggleRepeatAct
  \/ TogglePlayPauseAct
  \/ UpdateProgressAct
  \/ MediaSessionPlayAct
  \/ MediaSessionPauseAct
  \/ FrameAct

SpecViz == InitViz /\ [][NextViz]_vars

(* ---------------- properties of the playlist store ---------------- *)

\* C11: no playlist's trackIds holds a track twice, and adding a track the
\* target playlist already holds leaves every trackIds as it was (same
\* elements, same order).
C11_AddTrackIdempotent ==
  /\ \A k \in 1..Len(state.playlists) : NoDuplicates(state.playlists[k].trackIds)
  /\ ~hung =>
        \A trackIndex \in AddIndices, favId \in Ids, ok1, ok2 \in BOOLEAN :
          LET w1 == HandleAddTrackToPlaylist(World, trackIndex, favId, ok1)
              w2 == HandleAddTrackToPlaylist(w1, trackIndex, favId, ok2)
          IN /\ w2.state.playlists = w1.state.playlists
             /\ \A k \in 1..Len(w1.state.playlists) :
                  NoDuplicates(w1.state.playlists[k].trackIds)

\* The active playlist holds a track; the button of that track is there to
\* be pressed again, and the press changes nothing in memory.
C11_Witness ==
  /\ ~hung /\ N > 0
  /\ HasKey(state.playlists, state.activePlaylistId)
  /\ Get(state.playlists, state.activePlaylistId).trackIds = <<0>>
  /\ HandleAddTrackToPlaylist(World, 0, "k1", FALSE) = World

\* C12: saving the collection in memory and loading what was written into
\* a fresh page gives back the same playlists (keys, ids, names and
\* trackIds, in order) and the same activePlaylistId.
C12_SaveLoadRoundTrip ==
  \A favId \in Ids :
    LET saved == SavePlaylistsToStorage(World, TRUE)
        fresh == DOMContentLoaded(saved.storage, favId)
    IN /\ fresh.state.playlists = state.playlists
       /\ fresh.state.activePlaylistId = state.activePlaylistId

\* Two playlists in memory, the second one active and holding a track,
\* while localStorage holds something else.
C12_Witness ==
  /\ Len(state.playlists) = 2
  /\ state.activePlaylistId = state.playlists[2].key
  /\ state.playlists[2].trackIds = <<0>>
  /\ state.playlists[1].name # state.playlists[2].name
  /\ storage # SavePlaylistsToStorage(World, TRUE).storage

\* C13: activePlaylistId, when set, is a key of playlists, and it is set
\* whenever playlists is non-empty; this holds after the load (nothing
\* stored, a stored document, an unreadable entry) and after every create,
\* add and select.
C13_ActiveIsKey ==
  /\ state.activePlaylistId # NoId
       => HasKey(state.playlists, state.activePlaylistId)
  /\ Len(state.playlists) > 0
       => HasKey(state.playlists, state.activePlaylistId)

\* The page came up on an unreadable entry, every write since then failed,
\* two playlists were created and the first of them selected again.
C13_Witness ==
  /\ storage = Corrupt
  /\ Len(state.playlists) = 2
  /\ state.activePlaylistId = state.playlists[1].key
  /\ state.playlists[2].trackIds # <<>>

\* The collection a load of nothing stored is to leave: one playlist named
\* "Favorites", without tracks, and active.
OnlyFavorites(s) ==
  /\ Len(s.playlists) = 1
  /\ s.playlists[1].name = "Favorites"
  /\ s.playlists[1].trackIds = <<>>
  /\ s.playlists[1].id = s.playlists[1].key
  /\ s.activePlaylistId = s.playlists[1].key

\* The entry in localStorage is a document that decodes to s's collection.
Persisted(stored, s) ==
  /\ stored.kind = "json"
  /\ ParsedPlaylists(stored.doc) = s.playlists
  /\ ParsedActive(stored.doc) = s.activePlaylistId

\* C14: a page load that finds nothing stored leaves exactly the default
\* "Favorites" playlist, active, and has written it to localStorage by the
\* time the load returns.
C14_DefaultPersisted ==
  storage = Absent =>
    \A favId \in Ids :
      LET w == DOMContentLoaded(storage, favId)
      IN OnlyFavorites(w.state) /\ Persisted(w.storage, w.state)

\* C15: an entry that cannot be read or parsed is treated as nothing
\* stored: the load ends with the default "Favorites" playlist, active.
C15_CorruptLikeAbsent ==
  storage = Corrupt =>
    \A favId \in Ids :
      /\ OnlyFavorites(DOMContentLoaded(storage, favId).state)
      /\ DOMContentLoaded(storage, favId).state
           = DOMContentLoaded(Absent, favId).state

\* C16: createNewPlaylist changes nothing for an empty or whitespace-only
\* name, and no playlist has an empty name.
C16_NoEmptyName ==
  /\ \A k \in 1..Len(state.playlists) : state.playlists[k].name # ""
  /\ ~hung =>
        \A name \in {t \in PromptTexts : Trim(t) = ""}, id \in Ids, ok \in BOOLEAN :
          CreateNewPlaylist(World, name, id, ok) = World

\* C17: after createNewPlaylist (with a name it accepts), after
\* handleAddTrackToPlaylist and after a playlist selection, each with a
\* write that succeeds, the entry in localStorage decodes to exactly the
\* playlists and the activePlaylistId in memory.
C17_MutationsPersisted ==
  ~hung =>
    /\ \A name \in PromptTexts \ {""}, id \in Ids :
         LET w == CreateNewPlaylist(World, name, id, TRUE)
         IN Persisted(w.storage, w.state)
    /\ \A trackIndex \in AddIndices, favId \in Ids :
         LET w == HandleAddTrackToPlaylist(World, trackIndex, favId, TRUE)
         IN Persisted(w.storage, w.state)
    /\ \A k \in 1..Len(state.playlists) :
         LET w == SelectPlaylist(World, state.playlists[k], TRUE)
         IN Persisted(w.storage, w.state)

\* The entry lags behind memory (a write failed), two playlists exist and
\* the catalog's add buttons are there: each of the three operations is
\* available and has something to write.
C17_Witness ==
  /\ ~hung /\ N > 0
  /\ Len(state.playlists) = 2
  /\ storage.kind = "json"
  /\ ~Persisted(storage, state)
  /\ Persisted(SelectPlaylist(World, state.playlists[1], TRUE).storage,
               [state EXCEPT !.activePlaylistId = state.playlists[1].key])

\* The queue part of the state object.
QueuePart(s) ==
  [tracks |-> s.tracks, shuffledOrder |-> s.shuffledOrder,
   orderIndex |-> s.orderIndex, currentTrackIndex |-> s.currentTrackIndex,
   isPlaying |-> s.isPlaying, repeatMode |-> s.repeatMode,
   shuffleEnabled |-> s.shuffleEnabled]

\* What skipTrack(d) makes of world w, for both directions.
LaterSkips(w) == [d \in {1, -1} |-> SkipTrack(w, d, NoShuffle, TRUE)]

\* The store operation left world f where its write failed and would have
\* left world t had the write succeeded: memory is the same, the entry is
\* the one from before, the queue, the element and the handler's return are
\* untouched, and a later skip does what it does (later) without the
\* operation.
FailedWriteHarmless(f, t, later) ==
  /\ f.state = t.state
  /\ f.storage = storage
  /\ QueuePart(f.state) = QueuePart(state)
  /\ f.audio = audio
  /\ f.hung = hung
  /\ \A d \in {1, -1} :
       LET a == SkipTrack(f, d, NoShuffle, TRUE)
       IN QueuePart(a.state) = QueuePart(later[d].state) /\ a.audio = later[d].audio

\* C18: when the write to localStorage fails, the store operation still
\* completes: the mutation stays in memory, the entry written before is
\* untouched, and the queue and later playback commands are unaffected.
C18_WriteFailureSwallowed ==
  ~hung =>
    LET later == LaterSkips(World)
    IN /\ \A name \in PromptTexts, id \in Ids :
            FailedWriteHarmless(CreateNewPlaylist(World, name, id, FALSE),
                                CreateNewPlaylist(World, name, id, TRUE), later)
       /\ \A trackIndex \in AddIndices, favId \in Ids :
            FailedWriteHarmless(
              HandleAddTrackToPlaylist(World, trackIndex, favId, FALSE),
              HandleAddTrackToPlaylist(World, trackIndex, favId, TRUE), later)
       /\ \A k \in 1..Len(state.playlists) :
            FailedWriteHarmless(SelectPlaylist(World, state.playlists[k], FALSE),
                                SelectPlaylist(World, state.playlists[k], TRUE), later)

\* A document was written, later writes failed: memory holds a playlist
\* with a track that the entry does not know, on a page with its catalog.
C18_Witness ==
  /\ ~hung /\ N > 0
  /\ storage.kind = "json"
  /\ Len(ParsedPlaylists(storage.doc)) = 1
  /\ Len(state.playlists) = 2
  /\ state.playlists[2].trackIds = <<0>>

(* ---------------- properties of the normalizer ---------------- *)

\* A record's source: the url field, else the link field, trimmed.
Source(t) == IF t.url # "" THEN Trim(t.url) ELSE Trim(t.link)

\* The positions (1-based) of the records of raw that have a source.
KeptPositions(raw) ==
  SelectSeq([k \in 1..Len(raw) |-> k], LAMBDA k : Source(raw[k]) # "")

\* C19: the catalog is, in input order, exactly the records of the document
\* whose trimmed source (url, else link) is non-empty; every track's source
\* is non-empty; accepted count + skipped count = the document's length.
C19_KeepsExactlySourced ==
  ~fetchPending =>
    LET kept == KeptPositions(response)
    IN /\ Len(state.tracks) = Len(kept)
       /\ \A k \in 1..Len(kept) : state.tracks[k].src = Source(response[kept[k]])
       /\ \A k \in 1..N : state.tracks[k].src # ""
       /\ N + Skipped(response, Len(response)) = Len(response)

\* A document of two records: the first has only a blank url and a good
\* link and is skipped, the second is kept through its padded link.
C19_Witness ==
  /\ ~fetchPending
  /\ Len(response) = 2 /\ N = 1
  /\ response[1].url = " " /\ response[1].link = "a2.mp3"
  /\ response[2].url = "" /\ response[2].link = " a1.mp3 "
  /\ state.tracks[1].src = "a1.mp3"

C21_InvalidAddRejected ==
  /\ ~hung =>
        \A trackIndex \in {-1, N}, favId \in Ids, writeOk \in BOOLEAN :
          HandleAddTrackToPlaylist(World, trackIndex, favId, writeOk) = World
  /\ \A k \in 1..Len(state.playlists) :
       \A m \in 1..Len(state.playlists[k].trackIds) :
         state.playlists[k].trackIds[m] \in 0..(N - 1)

\* The worlds the handlers that call audio.play() leave when the element
\* refuses: togglePlayPause on its play branch, playTrackFromIndex, skipTrack
\* and handleTrackEnded.
RefusedPlays ==
  (IF N > 0 /\ ~state.isPlaying THEN {TogglePlayPause(World, FALSE)} ELSE {})
    \cup { PlayTrackFromIndex(World, index, NoShuffle, FALSE) : index \in 0..(N - 1) }
    \cup { SkipTrack(World, d, NoShuffle, FALSE) : d \in {1, -1} }
    \cup (IF audio.src # "" /\ ~audio.paused
            THEN {HandleTrackEnded(EndedWorld, NoShuffle, FALSE)} ELSE {})

C23_ShuffleAdvance ==
  (~hung /\ state.shuffleEnabled /\ N >= 1 /\ Len(state.shuffledOrder) > 0) =>
    \A d \in {1, -1}, ok \in BOOLEAN :
      \A perm \in Perms(N, SkipReseeds(state, d)) :
        LET r == SkipTrack(World, d, perm, ok)
        IN /\ IF SkipReseeds(state, d)
                THEN /\ IsPermutation(r.state.shuffledOrder, N)
                     /\ r.state.orderIndex = 0
                ELSE /\ r.state.shuffledOrder = state.shuffledOrder
                     /\ r.state.orderIndex = state.orderIndex + d
           /\ r.state.currentTrackIndex
                = At(r.state.shuffledOrder, r.state.orderIndex)

\* C24: whenever shuffle is enabled and a track is current, the order's
\* entry under the cursor is the current track.
C24_CursorMarksCurrent ==
  (~hung /\ state.shuffleEnabled /\ state.currentTrackIndex # null) =>
    At(state.shuffledOrder, state.orderIndex) = state.currentTrackIndex

\* C25 as stated: with shuffle on and at least two tracks, a skip that runs
\* the cursor off the order never leaves the same order as before.
C25_ReseedNewOrder ==
  (~hung /\ state.shuffleEnabled /\ N >= 2) =>
    \A d \in {1, -1}, ok \in BOOLEAN :
      SkipReseeds(state, d) =>
        \A perm \in ShuffledIndices[N] :
          SkipTrack(World, d, perm, ok).state.shuffledOrder # state.shuffledOrder

\* C25: with shuffle on and at least two tracks, a skip that runs the
\* cursor off the order replaces the order by the permutation shuffleArray
\* draws and puts the cursor on its first slot; the draw is independent of
\* the order before, which is itself one of the possible draws.
C25_ReseedIsFreshDraw ==
  (~hung /\ state.shuffleEnabled /\ N >= 2) =>
    \A d \in {1, -1}, ok \in BOOLEAN :
      SkipReseeds(state, d) =>
        /\ \A perm \in ShuffledIndices[N] :
             LET r == SkipTrack(World, d, perm, ok)
             IN /\ r.state.shuffledOrder = perm
                /\ IsPermutation(perm, N)
                /\ r.state.orderIndex = 0
        /\ \E perm \in ShuffledIndices[N] :
             SkipTrack(World, d, perm, ok).state.shuffledOrder = state.shuffledOrder

C25_Witness ==
  /\ ~hung /\ state.shuffleEnabled /\ N >= 2
  /\ state.orderIndex = N - 1 /\ SkipReseeds(state, 1)
  /\ state.currentTrackIndex = At(state.shuffledOrder, state.orderIndex)
  /\ state.shuffledOrder \in ShuffledIndices[N]

\* C26: whenever shuffle is disabled and the catalog is loaded, the order
\* is the identity 0, 1, ..., n-1.
C26_IdentityWhenOff ==
  (~hung /\ ~state.shuffleEnabled /\ N > 0) => state.shuffledOrder = Indices(N)

(* ---------------- properties of the store's operations ---------------- *)

\* The worlds handleAddTrackToPlaylist is applied to: the present one, and
\* the present one with no playlist selected.
AddWorlds == {World, [World EXCEPT !.state.activePlaylistId = NoId]}

\* The playlist handleAddTrackToPlaylist is to work on in world w.
AddTarget(w, favId) ==
  IF w.state.activePlaylistId # NoId THEN w.state.activePlaylistId
  ELSE IF Len(w.state.playlists) > 0 THEN Keys(w.state.playlists)[1]
  ELSE favId

\* C27: handleAddTrackToPlaylist works on the active playlist if one is
\* set, else on the first existing playlist, which becomes active, else on
\* a new playlist "Favorites", which becomes active; afterwards the target
\* holds the track, and nothing but the target's trackIds has changed in
\* the collection.
C27_AddTargetResolution ==
  ~hung =>
    \A w \in AddWorlds, trackIndex \in 0..(N - 1), writeOk \in BOOLEAN :
      \A favId \in GeneratedIds(w.state.playlists) :
        LET r == HandleAddTrackToPlaylist(w, trackIndex, favId, writeOk)
            target == AddTarget(w, favId)
            before == IF HasKey(w.state.playlists, target) THEN w.state.playlists
                      ELSE <<NewPlaylist(favId, "Favorites")>>
        IN /\ r.state.activePlaylistId = target
           /\ Len(r.state.playlists) = Len(before)
           /\ \A k \in 1..Len(before) :
                IF before[k].key = target
                  THEN /\ [r.state.playlists[k] EXCEPT !.trackIds = <<>>]
                            = [before[k] EXCEPT !.trackIds = <<>>]
                       /\ Includes(r.state.playlists[k].trackIds, trackIndex)
                  ELSE r.state.playlists[k] = before[k]

C27_Witness ==
  /\ ~hung /\ Len(state.playlists) = 2
  /\ state.activePlaylistId = state.playlists[2].key
  /\ state.playlists[1].trackIds = <<>>
  /\ state.playlists[1].name = "Favorites"
  /\ state.playlists[2].trackIds # <<>>

\* C28: createNewPlaylist with a name it accepts and any id generateId can
\* return adds exactly one playlist, which is empty and active, and leaves
\* every playlist there was as it was.
C28_CreateAddsOne ==
  ~hung =>
    \A name \in PromptTexts \ {""}, writeOk \in BOOLEAN :
      \A id \in GeneratedIds(state.playlists) :
        LET r == CreateNewPlaylist(World, name, id, writeOk)
            n == Len(state.playlists)
        IN /\ Len(r.state.playlists) = n + 1
           /\ r.state.playlists[n + 1].trackIds = <<>>
           /\ r.state.activePlaylistId = r.state.playlists[n + 1].key
           /\ \A k \in 1..n : r.state.playlists[k] = state.playlists[k]

(* ---------------- properties of the visualizer ---------------- *)

\* C29: at most one frame callback is pending, the one whose handle rafId
\* holds; and startVisualizerLoop leaves exactly one pending whatever was
\* pending before.
C29_OneSamplingLoop ==
  /\ Cardinality(viz.pending) <= 1
  /\ viz.pending \subseteq {viz.rafId}
  /\ (~hung /\ viz.ready) =>
       LET r == StartVisualizerLoop(World)
       IN r.viz.pending = {r.viz.rafId} /\ viz.rafId \notin r.viz.pending

C29_Witness ==
  /\ ~hung /\ viz.ready /\ viz.pending = {2} /\ viz.rafId = 2
  /\ ~audio.paused /\ state.isPlaying

\* C30: after every handler, a paused element has no frame callback
\* pending.
C30_StopsWhenPaused ==
  (~hung /\ audio.paused) => viz.pending = {}

(* ---------------- properties: fallback ids, preview, load ---------------- *)

\* C31: a kept record without an id gets the fallback id t<k> of its
\* 1-based position k in the document, whatever was skipped before it; a
\* kept record with an id keeps that id.
C31_FallbackFromOriginalPosition ==
  ~fetchPending =>
    LET kept == KeptPositions(response)
    IN \A k \in 1..N :
         state.tracks[k].id = IF response[kept[k]].id = ""
                                THEN FallbackIds[kept[k]]
                                ELSE response[kept[k]].id

\* C32: whenever renderUpNext's list is not empty, its first entry is the
\* track skipTrack(1) makes current, with shuffle on or off and also with
\* the cursor on the last slot of the order (every track having a source
\* that loads).
C32_PreviewPredictsAdvance ==
  (~hung /\ N >= 1 /\ AllLoadable
     /\ UpNext(state).done /\ UpNext(state).list # <<>>) =>
    \A ok \in BOOLEAN :
      \A perm \in Perms(N, SkipReseeds(state, 1)) :
        SkipTrack(World, 1, perm, ok).state.currentTrackIndex
          = UpNext(state).list[1]

\* The tracks current after each of k consecutive skipTrack(1) from world
\* w (none of them running the cursor off the order).
RECURSIVE PlayedBySkips(_, _)
PlayedBySkips(w, k) ==
  IF k = 0 THEN <<>>
  ELSE LET r == SkipTrack(w, 1, w.state.shuffledOrder, TRUE)
       IN <<r.state.currentTrackIndex>> \o PlayedBySkips(r, k - 1)

\* The track current in w, then those of the next n - 1 skipTrack(1), are n
\* different tracks.
EveryTrackOnce(w) ==
  LET n == Len(w.state.tracks)
  IN NoDuplicates(<<w.state.currentTrackIndex>> \o PlayedBySkips(w, n - 1))

\* The worlds right after a buildInitialShuffleOrder with shuffle on, as
\* they can follow the present state: the catalog arrives, toggleShuffle
\* turns shuffle on, skipTrack leaves the order at either end.
FreshlyOrdered ==
  (IF fetchPending /\ state.shuffleEnabled
     THEN { FetchTracks(World, response, perm) :
              perm \in ShuffledIndices[Len(Normalize(response))] }
     ELSE {})
  \cup (IF ~state.shuffleEnabled
          THEN { ToggleShuffle(World, perm) : perm \in ShuffledIndices[N] }
          ELSE {})
  \cup UNION { IF SkipReseeds(state, d)
                 THEN { SkipTrack(World, d, perm, TRUE) : perm \in ShuffledIndices[N] }
                 ELSE {} : d \in {1, -1} }

\* C33: with shuffle on, right after the order was built (catalog load,
\* toggleShuffle turning shuffle on, re-seed) the current track and the
\* tracks of the next n - 1 skipTrack(1) are n different tracks (every
\* track having a source that loads).
C33_EveryTrackOncePerOrder ==
  (~hung /\ AllLoadable) =>
    \A r \in FreshlyOrdered :
      (~r.hung /\ Len(r.state.tracks) >= 1
         /\ \A k \in 1..Len(r.state.tracks) :
              Trim(r.state.tracks[k].src) \notin {"", "undefined"})
        => EveryTrackOnce(r)

\* C34: whenever a track is current, the source the media element holds
\* is that track's.
C34_LoadedIsCurrent ==
  state.currentTrackIndex # null =>
    audio.src = Trim(At(state.tracks, state.currentTrackIndex).src)

====
